---- MODULE Spec2Model ----
(***************************************************************************)
(* Task registry, factory, pipeline lifecycle (deepsparse/pipeline.py) and *)
(* the prediction-route binder (deepsparse/server/main.py).                *)
(*                                                                         *)
(* Strings whose characters matter (task names) are sequences of           *)
(* one-character strings.  A Python Optional is NoneV (the empty tuple)    *)
(* or Some(v) (a one-element tuple).                                       *)
(***************************************************************************)
EXTENDS Integers, Sequences, FiniteSets, TLC

VARIABLES
    registry,       \* _REGISTERED_PIPELINES: bound task name -> pipeline class
    classAttrs,     \* per class: the task / task_aliases attributes set by register
    imported,       \* whether the lazily registered task domain's module is imported
    pipeline,       \* the Pipeline object the most recent create returned, if any
    last,           \* what the most recent operation was given and how it ended
    app,            \* the FastAPI app's prediction routes, in mounting order
    defined_tasks,  \* the set handed to every _add_pipeline_route call
    pipeline_defs,  \* what load_pipelines_definitions returned
    next_def,       \* position of the loop of server_app_factory
    server,         \* "idle", "binding", "returned" or "aborted"
    threads         \* per thread: where it stands in a Pipeline.register call

pipelineVars == <<registry, classAttrs, imported, pipeline>>
serverVars == <<app, defined_tasks, pipeline_defs, next_def, server>>
vars == <<registry, classAttrs, imported, pipeline, last,
          app, defined_tasks, pipeline_defs, next_def, server, threads>>

\* ------------------------------------------------------------- Python values

NoneV == <<>>
Some(v) == <<v>>
IsNone(o) == o = <<>>
Val(o) == o[1]

\* a mapping with one key bound or rebound (dict.__setitem__)
SetItem(d, k, v) == [x \in DOMAIN d \cup {k} |-> IF x = k THEN v ELSE d[x]]

EmptyDict == [x \in {} |-> x]

\* ------------------------------------------------------------- task names

\* str.lower() on one character
LowerChar(c) ==
    CASE c = "Q" -> "q"
      [] c = "A" -> "a"
      [] c = "I" -> "i"
      [] c = "C" -> "c"
      [] OTHER -> c

\* str.lower()
StrLower(s) == [i \in DOMAIN s |-> LowerChar(s[i])]

\* str.replace(old, new) for one-character old and new
StrReplace(s, old, new) == [i \in DOMAIN s |-> IF s[i] = old THEN new ELSE s[i]]

\* the task names callers use
Names ==
    { <<"q", "_", "a">>, <<"Q", "-", "A">>, <<"i", "c">> }

\* most aliases one register call is given
MaxAliases == 1

SeqsUpTo(S, n) == UNION { [1..k -> S] : k \in 0..n }

\* the names callers give as aliases
AliasNames == { <<"Q", "-", "A">> }

\* the task_aliases arguments: None or a list of names
AliasArgs == {NoneV} \cup { Some(l) : l \in SeqsUpTo(AliasNames, MaxAliases) }

\* Pipeline subclasses and one class that is no Pipeline
PipelineClasses == {"ImplA", "ImplB", "LazyImpl"}
Classes == PipelineClasses \cup {"NotAPipeline"}
UserClasses == {"ImplA", "ImplB", "NotAPipeline"}

\* ------------------------------------------------------------- Pipeline.register

\* issubclass(pipeline_class, cls)
issubclass(pipeline_class) == pipeline_class \in PipelineClasses

\* task_names = [task]; if task_aliases: task_names.extend(task_aliases)
task_names(task, task_aliases) ==
    IF ~IsNone(task_aliases) /\ Val(task_aliases) # <<>>
    THEN <<task>> \o Val(task_aliases)
    ELSE <<task>>

\* _register_task with the conflict test left out
RegisterTaskUnchecked(reg, task_name, pipeline_class) ==
    [reg |-> SetItem(reg, task_name, pipeline_class), raised |-> FALSE]

\* one call of _register_task on the mapping reg: the mapping afterwards and
\* whether RuntimeError was raised
_register_task(reg, task_name, pipeline_class) ==
    IF task_name \in DOMAIN reg /\ pipeline_class # reg[task_name]
    THEN [reg |-> reg, raised |-> TRUE]
    ELSE [reg |-> SetItem(reg, task_name, pipeline_class), raised |-> FALSE]

\* for task_name in task_names: _register_task(task_name, pipeline_class),
\* from position i on; the loop stops at the first RuntimeError
RECURSIVE RegisterLoop(_, _, _, _)
RegisterLoop(reg, names, i, pipeline_class) ==
    IF i > Len(names)
    THEN [reg |-> reg, raised |-> FALSE]
    ELSE LET r == _register_task(reg, names[i], pipeline_class)
         IN  IF r.raised THEN r
             ELSE RegisterLoop(r.reg, names, i + 1, pipeline_class)

\* Pipeline.register(task, task_aliases)(pipeline_class) on the registry reg
\* and class attributes attrs: the state afterwards and the outcome
_register_pipeline_tasks_decorator(reg, attrs, task, task_aliases, pipeline_class) ==
    IF ~issubclass(pipeline_class)
    THEN [reg |-> reg, attrs |-> attrs, result |-> "NotASubclass"]
    ELSE LET r == RegisterLoop(reg, task_names(task, task_aliases), 1, pipeline_class)
         IN  IF r.raised
             THEN [reg |-> r.reg, attrs |-> attrs, result |-> "RegistrationConflict"]
             ELSE [reg |-> r.reg,
                   attrs |-> [attrs EXCEPT ![pipeline_class] =
                                 Some([task |-> task, task_aliases |-> task_aliases])],
                   result |-> "ok"]

\* a caller applies Pipeline.register(task, task_aliases) to pipeline_class
Register(task, task_aliases, pipeline_class) ==
    LET r == _register_pipeline_tasks_decorator(
                 registry, classAttrs, task, task_aliases, pipeline_class)
    IN  /\ registry' = r.reg
        /\ classAttrs' = r.attrs
        /\ last' = [op |-> "register", task |-> task, task_aliases |-> task_aliases,
                    pipeline_class |-> pipeline_class, result |-> r.result]
        /\ UNCHANGED <<imported, pipeline, serverVars, threads>>

\* the threads that may apply Pipeline.register, and a thread that is not
\* inside a call
Threads == {"t1", "t2"}
Idle == [pc |-> "idle", task_name |-> <<>>, pipeline_class |-> "none"]

\* ------------------------------------------------------------- Pipeline.__init__

DEEPSPARSE_ENGINE == "deepsparse"
ORT_ENGINE == "onnxruntime"
SUPPORTED_PIPELINE_ENGINES == <<DEEPSPARSE_ENGINE, ORT_ENGINE>>

\* the engine_type arguments callers give
EngineTypes == {"deepsparse", "DeepSparse", "onnxruntime", "tensorrt"}

\* str.lower() on the engine_type arguments
EngineLower(engine_type) ==
    CASE engine_type = "DeepSparse" -> "deepsparse"
      [] OTHER -> engine_type

\* an _initialize_engine whose last branch falls back to the ONNX Runtime engine
InitializeEngineFallback(self, engine_ok) ==
    LET engine_type == EngineLower(self.engine_type)
        kind == IF engine_type = DEEPSPARSE_ENGINE THEN "Engine" ELSE "ORTEngine"
    IN  IF engine_ok
        THEN [raised |-> "ok",
              engine |-> Some([kind |-> kind,
                               onnx_file_path |-> self.onnx_file_path,
                               args |-> self.engine_args]),
              calls |-> <<kind>>]
        ELSE [raised |-> "EngineInitError", engine |-> NoneV, calls |-> <<kind>>]

\* _initialize_engine on the half-built object self; engine_ok is whether the
\* engine's constructor succeeds.  The outcome, the engine and the calls made.
_initialize_engine(self, engine_ok) ==
    LET engine_type == EngineLower(self.engine_type)
        kind == IF engine_type = DEEPSPARSE_ENGINE THEN "Engine" ELSE "ORTEngine"
    IN  IF engine_type = DEEPSPARSE_ENGINE \/ engine_type = ORT_ENGINE
        THEN IF engine_ok
             THEN [raised |-> "ok",
                   engine |-> Some([kind |-> kind,
                                    onnx_file_path |-> self.onnx_file_path,
                                    args |-> self.engine_args]),
                   calls |-> <<kind>>]
             ELSE [raised |-> "EngineInitError", engine |-> NoneV, calls |-> <<kind>>]
        ELSE [raised |-> "UnsupportedEngine", engine |-> NoneV, calls |-> <<>>]

\* engine arguments that take the scheduler only for the exact spelling
EngineArgsExactMatch(a) ==
    IF a.engine_type = DEEPSPARSE_ENGINE
    THEN [batch_size |-> a.batch_size, num_cores |-> a.num_cores,
          input_shapes |-> a.input_shapes, scheduler |-> a.scheduler]
    ELSE [batch_size |-> a.batch_size, num_cores |-> a.num_cores,
          input_shapes |-> a.input_shapes]

\* self._engine_args: batch_size, num_cores and input_shapes, and the
\* scheduler when engine_type.lower() is the deepsparse engine
EngineArgs(a) ==
    IF EngineLower(a.engine_type) = DEEPSPARSE_ENGINE
    THEN [batch_size |-> a.batch_size, num_cores |-> a.num_cores,
          input_shapes |-> a.input_shapes, scheduler |-> a.scheduler]
    ELSE [batch_size |-> a.batch_size, num_cores |-> a.num_cores,
          input_shapes |-> a.input_shapes]

\* a constructor that builds the engine on the model path as given when
\* setup_onnx_file_path raised
PipelineInitEngineAnyway(cls, a, env) ==
    LET engine_args == EngineArgs(a)
        path == IF IsNone(env.artifact) THEN a.model_path ELSE Val(env.artifact)
        self1 == [cls |-> cls, model_path_orig |-> a.model_path,
                  model_path |-> a.model_path, engine_type |-> a.engine_type,
                  alias |-> a.alias, engine_args |-> engine_args,
                  kwargs |-> a.kwargs, onnx_file_path |-> path]
        e == _initialize_engine(self1, env.engine_ok)
    IN  IF e.raised # "ok"
        THEN [raised |-> e.raised, self |-> NoneV,
              calls |-> <<"setup_onnx_file_path">> \o e.calls]
        ELSE [raised |-> "ok",
              self |-> Some([cls |-> cls, model_path_orig |-> a.model_path,
                             model_path |-> a.model_path,
                             engine_type |-> a.engine_type,
                             alias |-> a.alias, engine_args |-> engine_args,
                             kwargs |-> a.kwargs, onnx_file_path |-> path,
                             engine |-> Val(e.engine)]),
              calls |-> <<"setup_onnx_file_path">> \o e.calls]

\* Pipeline.__init__ of class cls with the arguments a; env.artifact is what
\* setup_onnx_file_path returns (None: it raises) and env.engine_ok whether
\* the engine's constructor succeeds.  kwargs are the extra arguments the
\* subclass's constructor received.
PipelineInit(cls, a, env) ==
    LET engine_args == EngineArgs(a)
    IN  IF IsNone(env.artifact)
        THEN [raised |-> "ArtifactResolutionError", self |-> NoneV,
              calls |-> <<"setup_onnx_file_path">>]
        ELSE LET self1 == [cls |-> cls, model_path_orig |-> a.model_path,
                           model_path |-> a.model_path, engine_type |-> a.engine_type,
                           alias |-> a.alias, engine_args |-> engine_args,
                           kwargs |-> a.kwargs, onnx_file_path |-> Val(env.artifact)]
                 e == _initialize_engine(self1, env.engine_ok)
             IN  IF e.raised # "ok"
                 THEN [raised |-> e.raised, self |-> NoneV,
                       calls |-> <<"setup_onnx_file_path">> \o e.calls]
                 ELSE [raised |-> "ok",
                       self |-> Some([cls |-> cls, model_path_orig |-> a.model_path,
                                      model_path |-> a.model_path,
                                      engine_type |-> a.engine_type,
                                      alias |-> a.alias, engine_args |-> engine_args,
                                      kwargs |-> a.kwargs,
                                      onnx_file_path |-> Val(env.artifact),
                                      engine |-> Val(e.engine)]),
                       calls |-> <<"setup_onnx_file_path">> \o e.calls]

\* ------------------------------------------------------------- Pipeline.create

\* the canonical task names of the lazily registered domain, and what the
\* domain's module registers when it is imported
LazyDomain == { <<"i", "c">> }
LazyTask == <<"i", "c">>
LazyAliases == NoneV
LazyClass == "LazyImpl"

\* SupportedTasks.check_register_task(task): the first request for a task of
\* the lazy domain imports the domain's module, which registers its pipeline;
\* an import that raises is not cached
check_register_task(reg, attrs, imp, task) ==
    IF task \in LazyDomain /\ ~imp
    THEN LET r == _register_pipeline_tasks_decorator(
                      reg, attrs, LazyTask, LazyAliases, LazyClass)
         IN  [reg |-> r.reg, attrs |-> r.attrs, imported |-> r.result = "ok",
              result |-> r.result]
    ELSE [reg |-> reg, attrs |-> attrs, imported |-> imp, result |-> "ok"]

\* task.lower() with the hyphens left in place
CanonicalLowerOnly(task) == StrLower(task)

\* the registered names with their spelling normalised
RegisteredNamesNormalised(reg) ==
    { StrReplace(StrLower(n), "-", "_") : n \in DOMAIN reg }

\* list(_REGISTERED_PIPELINES.keys()), as the set of names it holds
RegisteredNames(reg) == DOMAIN reg

\* task = task.lower().replace("-", "_")
Canonical(task) == StrReplace(StrLower(task), "-", "_")

\* a create that looks the task up before the lazy registration is triggered
CreateLookupFirst(reg, attrs, imp, task0, a, env) ==
    LET task == Canonical(task0)
        t == check_register_task(reg, attrs, imp, task)
    IN  IF task \notin DOMAIN reg
        THEN [reg |-> reg, attrs |-> attrs, imported |-> imp,
              result |-> "UnknownTask", names |-> RegisteredNames(reg), impl |-> NoneV,
              self |-> NoneV, calls |-> <<>>]
        ELSE IF t.result # "ok"
        THEN [reg |-> t.reg, attrs |-> t.attrs, imported |-> t.imported,
              result |-> t.result, names |-> {}, impl |-> NoneV,
              self |-> NoneV, calls |-> <<>>]
        ELSE LET c == PipelineInit(t.reg[task], a, env)
             IN  [reg |-> t.reg, attrs |-> t.attrs, imported |-> t.imported,
                  result |-> c.raised, names |-> {}, impl |-> Some(t.reg[task]),
                  self |-> c.self, calls |-> c.calls]

\* Pipeline.create(task, **a) on the registry state: the state afterwards,
\* the outcome, the names an UnknownTask error lists, the object returned
create(reg, attrs, imp, task0, a, env) ==
    LET task == Canonical(task0)
        t == check_register_task(reg, attrs, imp, task)
    IN  IF t.result # "ok"
        THEN [reg |-> t.reg, attrs |-> t.attrs, imported |-> t.imported,
              result |-> t.result, names |-> {}, impl |-> NoneV,
              self |-> NoneV, calls |-> <<>>]
        ELSE IF task \notin DOMAIN t.reg
        THEN [reg |-> t.reg, attrs |-> t.attrs, imported |-> t.imported,
              result |-> "UnknownTask", names |-> RegisteredNames(t.reg), impl |-> NoneV,
              self |-> NoneV, calls |-> <<>>]
        ELSE LET c == PipelineInit(t.reg[task], a, env)
             IN  [reg |-> t.reg, attrs |-> t.attrs, imported |-> t.imported,
                  result |-> c.raised, names |-> {}, impl |-> Some(t.reg[task]),
                  self |-> c.self, calls |-> c.calls]

\* a caller calls Pipeline.create and holds what it returns
Create(task, a, env) ==
    LET r == create(registry, classAttrs, imported, task, a, env)
    IN  /\ registry' = r.reg
        /\ classAttrs' = r.attrs
        /\ imported' = r.imported
        /\ pipeline' = r.self
        /\ last' = [op |-> "create", task |-> task, args |-> a, env |-> env,
                    result |-> r.result, names |-> r.names, impl |-> r.impl,
                    calls |-> r.calls]
        /\ UNCHANGED <<serverVars, threads>>

\* ------------------------------------------------------------- registry and factory

\* the keyword arguments of create left at their defaults
DefaultArgs ==
    [model_path |-> "m.onnx", engine_type |-> DEEPSPARSE_ENGINE, batch_size |-> 1,
     num_cores |-> NoneV, scheduler |-> NoneV, input_shapes |-> NoneV,
     alias |-> NoneV, kwargs |-> EmptyDict]

\* what the collaborators do during one construction
Envs ==
    { [artifact |-> NoneV, engine_ok |-> TRUE],
      [artifact |-> Some("/cache/m.onnx"), engine_ok |-> FALSE],
      [artifact |-> Some("/cache/m.onnx"), engine_ok |-> TRUE] }

Init ==
    /\ registry = EmptyDict
    /\ classAttrs = [c \in Classes |-> NoneV]
    /\ imported = FALSE
    /\ pipeline = NoneV
    /\ last = [op |-> "init"]
    /\ app = <<>>
    /\ defined_tasks = {}
    /\ pipeline_defs = <<>>
    /\ next_def = 1
    /\ server = "idle"
    /\ threads = [t \in Threads |-> Idle]

RegisterStep ==
    \E task \in Names, task_aliases \in AliasArgs, pipeline_class \in UserClasses :
        Register(task, task_aliases, pipeline_class)

\* every collaborator succeeds
EnvOk == [artifact |-> Some("/cache/m.onnx"), engine_ok |-> TRUE]

CreateStep ==
    \E task \in Names : Create(task, DefaultArgs, EnvOk)

Next == RegisterStep \/ CreateStep

Spec == Init /\ [][Next]_vars

\* ------------------------------------------------------------- register from two threads

\* The statements of one Pipeline.register(task)(pipeline_class) call run one
\* after the other, and another thread may run between any two of them:
\* nothing in register holds a lock.

\* the task name and the classes the threads register
RaceNames == { <<"q", "_", "a">> }
RaceClasses == {"ImplA", "ImplB"}

\* a thread enters the decorator; pipeline_class is a Pipeline subclass
BeginRegister(t, task, pipeline_class) ==
    /\ threads[t].pc \in {"idle", "done", "raised"}
    /\ issubclass(pipeline_class)
    /\ threads' = [threads EXCEPT ![t] = [pc |-> "check", task_name |-> task,
                                          pipeline_class |-> pipeline_class]]
    /\ UNCHANGED <<pipelineVars, last, serverVars>>

\* _register_task: the test whether the name is bound to another class
CheckTask(t) ==
    /\ threads[t].pc = "check"
    /\ threads' = [threads EXCEPT ![t].pc =
                      IF /\ threads[t].task_name \in DOMAIN registry
                         /\ threads[t].pipeline_class # registry[threads[t].task_name]
                      THEN "raised" ELSE "insert"]
    /\ UNCHANGED <<pipelineVars, last, serverVars>>

\* _register_task: _REGISTERED_PIPELINES[task_name] = pipeline_class
InsertTask(t) ==
    /\ threads[t].pc = "insert"
    /\ registry' = SetItem(registry, threads[t].task_name, threads[t].pipeline_class)
    /\ threads' = [threads EXCEPT ![t].pc = "attrs"]
    /\ UNCHANGED <<classAttrs, imported, pipeline, last, serverVars>>

\* the decorator sets the class attributes and returns the class
SetAttrs(t) ==
    /\ threads[t].pc = "attrs"
    /\ classAttrs' = [classAttrs EXCEPT ![threads[t].pipeline_class] =
                         Some([task |-> threads[t].task_name, task_aliases |-> NoneV])]
    /\ threads' = [threads EXCEPT ![t].pc = "done"]
    /\ UNCHANGED <<registry, imported, pipeline, last, serverVars>>

\* create reads the binding of a task: _REGISTERED_PIPELINES[task]
Lookup(task) ==
    /\ last' = [op |-> "lookup", task |-> task,
                impl |-> IF task \in DOMAIN registry THEN Some(registry[task]) ELSE NoneV]
    /\ UNCHANGED <<pipelineVars, serverVars, threads>>

BeginRegisterStep ==
    \E t \in Threads, task \in RaceNames, pipeline_class \in RaceClasses :
        BeginRegister(t, task, pipeline_class)

CheckTaskStep == \E t \in Threads : CheckTask(t)

InsertTaskStep == \E t \in Threads : InsertTask(t)

SetAttrsStep == \E t \in Threads : SetAttrs(t)

LookupStep == \E task \in RaceNames : Lookup(task)

NextRace ==
    BeginRegisterStep \/ CheckTaskStep \/ InsertTaskStep \/ SetAttrsStep \/ LookupStep

SpecRace == Init /\ [][NextRace]_vars

\* ------------------------------------------------------------- Pipeline.__call__

\* the pydantic models: each implementation's input_model and output_model,
\* and a subclass of each
input_model(self) ==
    CASE self.cls = "ImplA" -> "InputA"
      [] self.cls = "ImplB" -> "InputB"
      [] OTHER -> "InputLazy"

output_model(self) ==
    CASE self.cls = "ImplA" -> "OutputA"
      [] self.cls = "ImplB" -> "OutputB"
      [] OTHER -> "OutputLazy"

\* the types of the objects callers and implementations hand over
ValueTypes == {"InputA", "InputASub", "OutputA", "OutputASub", "InputLazy", "OutputLazy"}

\* the base class of a model type that has one
BaseOf(type) ==
    CASE type = "InputASub" -> "InputA"
      [] type = "OutputASub" -> "OutputA"
      [] OTHER -> type

\* the fields of a pydantic model and those among them that are required;
\* every field of InputLazy is optional
FieldsOf(type) == {"text"}
RequiredOf(type) == IF BaseOf(type) = "InputLazy" THEN {} ELSE {"text"}

\* isinstance that takes every object for an instance
IsInstanceOfAnything(value, type) == ~IsNone(value)

\* isinstance(value, type), value an Optional object
isinstance(value, type) ==
    ~IsNone(value) /\ (Val(value).type = type \/ BaseOf(Val(value).type) = type)

\* type(**kwargs): pydantic builds the object if every required field is given
\* and every given field of the model has a value of its type ("good") or,
\* for an optional field, is None ("none"); keys that are no fields are
\* ignored.  None: ValidationError.
Construct(type, kwargs) ==
    IF /\ RequiredOf(type) \subseteq DOMAIN kwargs
       /\ \A k \in DOMAIN kwargs \cap FieldsOf(type) :
              \/ kwargs[k] = "good"
              \/ kwargs[k] = "none" /\ k \notin RequiredOf(type)
    THEN Some([type |-> type,
               given |-> { k \in DOMAIN kwargs \cap FieldsOf(type) : kwargs[k] = "good" }])
    ELSE NoneV

\* the keyword arguments callers give
KwargsArgs ==
    { EmptyDict, [k \in {"text"} |-> "good"], [k \in {"text"} |-> "bad"],
      [k \in {"top_k"} |-> "good"] }

\* the positional arguments callers give to a pipeline: nothing, or an object
\* of some pydantic model
InputArgs ==
    {NoneV} \cup { Some([type |-> t, given |-> {"text"}]) :
                       t \in {"InputA", "InputASub", "InputLazy", "OutputA"} }

\* the tensors process_inputs returns and the engine returns
EngineInputs == {"x1", "x2"}
EngineOutputs == {"y1", "y2"}

\* what the collaborators do during one call: process_inputs and the engine
\* return tensors or raise; process_engine_outputs returns an object, returns
\* None or raises
CallEnvs ==
    { [pre |-> "raise", eng |-> "raise", post |-> "raise"],
      [pre |-> "x1", eng |-> "raise", post |-> "raise"],
      [pre |-> "x1", eng |-> "y1", post |-> "raise"],
      [pre |-> "x1", eng |-> "y1", post |-> "None"] }
    \cup { [pre |-> "x1", eng |-> "y1", post |-> t] :
               t \in {"OutputA", "OutputASub", "OutputLazy", "InputA"} }
    \cup [pre : EngineInputs, eng : EngineOutputs, post : {"OutputA"}]

\* what process_engine_outputs returns under env
PostValue(env) ==
    IF env.post = "None" THEN NoneV ELSE Some([type |-> env.post, given |-> {"text"}])

\* __call__ from process_inputs on with the output left unvalidated
RunPipelineUnvalidated(self, inputs, env) ==
    LET c1 == << [fn |-> "process_inputs", arg |-> inputs, ret |-> env.pre] >>
        c2 == Append(c1, [fn |-> "engine", arg |-> env.pre, ret |-> env.eng])
        c3 == Append(c2, [fn |-> "process_engine_outputs", arg |-> env.eng,
                          ret |-> env.post])
    IN  IF env.pre = "raise"
        THEN [result |-> "PreprocessingError", value |-> NoneV, calls |-> c1]
        ELSE IF env.eng = "raise"
        THEN [result |-> "EngineError", value |-> NoneV, calls |-> c2]
        ELSE IF env.post = "raise"
        THEN [result |-> "PostprocessingError", value |-> NoneV, calls |-> c3]
        ELSE [result |-> "ok", value |-> PostValue(env), calls |-> c3]

\* __call__ from process_inputs on with the engine run on the tensors of the
\* pipeline's first call
RunPipelineCachedInputs(self, inputs, env) ==
    LET c1 == << [fn |-> "process_inputs", arg |-> inputs, ret |-> env.pre] >>
        c2 == Append(c1, [fn |-> "engine", arg |-> "x1", ret |-> env.eng])
        c3 == Append(c2, [fn |-> "process_engine_outputs", arg |-> env.eng,
                          ret |-> env.post])
    IN  IF env.pre = "raise"
        THEN [result |-> "PreprocessingError", value |-> NoneV, calls |-> c1]
        ELSE IF env.eng = "raise"
        THEN [result |-> "EngineError", value |-> NoneV, calls |-> c2]
        ELSE IF env.post = "raise"
        THEN [result |-> "PostprocessingError", value |-> NoneV, calls |-> c3]
        ELSE IF ~isinstance(PostValue(env), output_model(self))
        THEN [result |-> "OutputValidationError", value |-> NoneV, calls |-> c3]
        ELSE [result |-> "ok", value |-> PostValue(env), calls |-> c3]

\* __call__ from process_inputs on, for the validated inputs; each call is
\* recorded with its argument and what it returned: the engine is called on
\* what process_inputs returned and process_engine_outputs on what the engine
\* returned
RunPipeline(self, inputs, env) ==
    LET c1 == << [fn |-> "process_inputs", arg |-> inputs, ret |-> env.pre] >>
        c2 == Append(c1, [fn |-> "engine", arg |-> env.pre, ret |-> env.eng])
        c3 == Append(c2, [fn |-> "process_engine_outputs", arg |-> env.eng,
                          ret |-> env.post])
    IN  IF env.pre = "raise"
        THEN [result |-> "PreprocessingError", value |-> NoneV, calls |-> c1]
        ELSE IF env.eng = "raise"
        THEN [result |-> "EngineError", value |-> NoneV, calls |-> c2]
        ELSE IF env.post = "raise"
        THEN [result |-> "PostprocessingError", value |-> NoneV, calls |-> c3]
        ELSE IF ~isinstance(PostValue(env), output_model(self))
        THEN [result |-> "OutputValidationError", value |-> NoneV, calls |-> c3]
        ELSE [result |-> "ok", value |-> PostValue(env), calls |-> c3]

\* a __call__ that builds its input from the named arguments whenever there
\* are any
CallPrefersKwargs(self, pipeline_inputs, kwargs, env) ==
    IF kwargs # EmptyDict
    THEN LET parsed == Construct(input_model(self), kwargs)
         IN  IF IsNone(parsed)
             THEN [result |-> "InputValidationError", value |-> NoneV,
                   calls |-> << [fn |-> "input_model", arg |-> kwargs, ret |-> "raise"] >>]
             ELSE LET r == RunPipeline(self, parsed, env)
                  IN  [result |-> r.result, value |-> r.value,
                       calls |-> << [fn |-> "input_model", arg |-> kwargs,
                                     ret |-> "pipeline_inputs"] >> \o r.calls]
    ELSE IF ~isinstance(pipeline_inputs, input_model(self))
    THEN [result |-> "InputValidationError", value |-> NoneV, calls |-> <<>>]
    ELSE RunPipeline(self, pipeline_inputs, env)

\* Pipeline.__call__(pipeline_inputs, **kwargs): the outcome, the value
\* returned and the calls of the pipeline's methods and engine, in order
__call__(self, pipeline_inputs, kwargs, env) ==
    IF IsNone(pipeline_inputs) /\ kwargs # EmptyDict
    THEN LET parsed == Construct(input_model(self), kwargs)
         IN  IF IsNone(parsed)
             THEN [result |-> "InputValidationError", value |-> NoneV,
                   calls |-> << [fn |-> "input_model", arg |-> kwargs, ret |-> "raise"] >>]
             ELSE LET r == RunPipeline(self, parsed, env)
                  IN  [result |-> r.result, value |-> r.value,
                       calls |-> << [fn |-> "input_model", arg |-> kwargs,
                                     ret |-> "pipeline_inputs"] >> \o r.calls]
    ELSE IF ~isinstance(pipeline_inputs, input_model(self))
    THEN [result |-> "InputValidationError", value |-> NoneV, calls |-> <<>>]
    ELSE RunPipeline(self, pipeline_inputs, env)

\* a call after whose failure the caller no longer holds the pipeline
CallDropsOnFailure(pipeline_inputs, kwargs, env) ==
    /\ ~IsNone(pipeline)
    /\ LET r == __call__(Val(pipeline), pipeline_inputs, kwargs, env)
       IN  /\ last' = [op |-> "call", pipeline_inputs |-> pipeline_inputs,
                        kwargs |-> kwargs, env |-> env, result |-> r.result,
                        value |-> r.value, calls |-> r.calls]
           /\ pipeline' = IF r.result = "ok" THEN pipeline ELSE NoneV
    /\ UNCHANGED <<registry, classAttrs, imported, serverVars, threads>>

\* a caller calls the pipeline it holds; __call__ assigns to no attribute of
\* the pipeline
Call(pipeline_inputs, kwargs, env) ==
    /\ ~IsNone(pipeline)
    /\ LET r == __call__(Val(pipeline), pipeline_inputs, kwargs, env)
       IN  last' = [op |-> "call", pipeline_inputs |-> pipeline_inputs,
                    kwargs |-> kwargs, env |-> env, result |-> r.result,
                    value |-> r.value, calls |-> r.calls]
    /\ UNCHANGED <<pipelineVars, serverVars, threads>>

\* the pipeline definition the server holds for a pipeline: its request model
\* is the pipeline's input model and its kwargs are those of its config
PipelineDefOf(self) ==
    [pipeline |-> self, request_model |-> input_model(self), kwargs |-> self.kwargs]

\* vars(request): every field of the request model, None for an optional
\* field the request left out
RequestVars(request) ==
    [f \in FieldsOf(request.type) |-> IF f \in request.given THEN "good" ELSE "none"]

\* the request bodies the server has validated against a request model
Requests(request_model) ==
    { [type |-> request_model, given |-> g] :
          g \in {FieldsOf(request_model), RequiredOf(request_model)} }

\* _predict_func(request): execute_async runs the pipeline on the request's
\* fields and the definition's kwargs as named arguments; a key given twice
\* is a TypeError
_predict_func(pipeline_def, request, env) ==
    IF DOMAIN RequestVars(request) \cap DOMAIN pipeline_def.kwargs # {}
    THEN [result |-> "TypeError", value |-> NoneV, calls |-> <<>>]
    ELSE __call__(pipeline_def.pipeline, NoneV,
                  RequestVars(request) @@ pipeline_def.kwargs, env)

\* the server handles a prediction request for the pipeline
Predict(request, env) ==
    /\ ~IsNone(pipeline)
    /\ request \in Requests(PipelineDefOf(Val(pipeline)).request_model)
    /\ LET pipeline_def == PipelineDefOf(Val(pipeline))
           r == _predict_func(pipeline_def, request, env)
       IN  last' = [op |-> "call", pipeline_inputs |-> NoneV,
                    kwargs |-> RequestVars(request) @@ pipeline_def.kwargs,
                    env |-> env, result |-> r.result, value |-> r.value,
                    calls |-> r.calls]
    /\ UNCHANGED <<pipelineVars, serverVars, threads>>

\* the arguments callers give to create
CreateArgs ==
    [model_path : {"m.onnx"}, engine_type : EngineTypes, batch_size : {1},
     num_cores : {NoneV}, scheduler : {NoneV}, input_shapes : {NoneV},
     alias : {NoneV}, kwargs : {EmptyDict}]
    \cup
    [model_path : {"m.onnx"}, engine_type : EngineTypes, batch_size : {1},
     num_cores : {NoneV}, scheduler : {Some("async")}, input_shapes : {NoneV},
     alias : {Some("x")}, kwargs : {EmptyDict}]

\* the process once ImplA has registered itself for q_a
InitPipeline ==
    /\ registry = [n \in { <<"q", "_", "a">> } |-> "ImplA"]
    /\ classAttrs = [c \in Classes |->
                        IF c = "ImplA"
                        THEN Some([task |-> <<"q", "_", "a">>, task_aliases |-> NoneV])
                        ELSE NoneV]
    /\ imported = FALSE
    /\ pipeline = NoneV
    /\ last = [op |-> "register", task |-> <<"q", "_", "a">>, task_aliases |-> NoneV,
               pipeline_class |-> "ImplA", result |-> "ok"]
    /\ app = <<>>
    /\ defined_tasks = {}
    /\ pipeline_defs = <<>>
    /\ next_def = 1
    /\ server = "idle"
    /\ threads = [t \in Threads |-> Idle]

CreatePipelineStep ==
    \E task \in Names, a \in CreateArgs, env \in Envs : Create(task, a, env)

CallStep ==
    \E pipeline_inputs \in InputArgs, kwargs \in KwargsArgs, env \in CallEnvs :
        Call(pipeline_inputs, kwargs, env)

PredictStep ==
    \E request_model \in {"InputA", "InputB", "InputLazy"}, env \in CallEnvs :
        \E request \in Requests(request_model) : Predict(request, env)

NextPipeline == CreatePipelineStep \/ CallStep \/ PredictStep

SpecPipeline == InitPipeline /\ [][NextPipeline]_vars

\* ------------------------------------------------------------- PipelineConfig

\* A JSON document is a function from the keys it gives to their values; a
\* value is Null or a one-element tuple holding the value.
Null == <<>>
J(v) == <<v>>

\* the fields PipelineConfig declares
ConfigFields ==
    {"task", "model_path", "engine_type", "batch_size", "num_cores", "scheduler",
     "input_shapes", "alias", "kwargs"}

\* the fields declared without a default
RequiredFields == {"task", "model_path"}

\* the fields whose declared default is None, which therefore accept null
NullableFields == {"num_cores", "input_shapes", "alias"}

\* the defaults PipelineConfig declares
ConfigDefaults ==
    [engine_type |-> DEEPSPARSE_ENGINE, batch_size |-> 1, num_cores |-> NoneV,
     scheduler |-> "async", input_shapes |-> NoneV, alias |-> NoneV,
     kwargs |-> EmptyDict]

\* PipelineConfig.parse_raw(doc): a required field must be given, null is
\* refused for a field that is not nullable, an omitted field takes its
\* default, and no other check is declared
parse_raw(doc) ==
    IF \/ ~(RequiredFields \subseteq DOMAIN doc)
       \/ \E k \in DOMAIN doc \ NullableFields : doc[k] = Null
    THEN [raised |-> "ConfigValidationError", config |-> NoneV]
    ELSE [raised |-> "ok",
          config |-> Some([k \in ConfigFields |->
                              IF k \in DOMAIN doc
                              THEN IF k \in NullableFields THEN doc[k] ELSE doc[k][1]
                              ELSE ConfigDefaults[k]])]

\* a serialisation that leaves the kwargs field out
JsonWithoutKwargs(config) ==
    [k \in ConfigFields \ {"kwargs"} |->
        IF k \in NullableFields THEN config[k] ELSE J(config[k])]

\* PipelineConfig.json(): every field is written, None as null
json(config) ==
    [k \in ConfigFields |-> IF k \in NullableFields THEN config[k] ELSE J(config[k])]

\* the keyword arguments from_config passes to create
ConfigArgs(config) ==
    [model_path |-> config.model_path, engine_type |-> config.engine_type,
     batch_size |-> config.batch_size, num_cores |-> config.num_cores,
     scheduler |-> Some(config.scheduler), input_shapes |-> config.input_shapes,
     alias |-> config.alias, kwargs |-> config.kwargs]

\* the parameters create declares by name; from_config passes each of them
\* as a keyword argument
CreateParams ==
    {"task", "model_path", "engine_type", "batch_size", "num_cores", "scheduler",
     "input_shapes", "alias"}

\* a from_config that does not pass the alias on
FromConfigNoAlias(reg, attrs, imp, doc, env) ==
    LET p == parse_raw(doc)
    IN  IF p.raised # "ok"
        THEN [reg |-> reg, attrs |-> attrs, imported |-> imp, result |-> p.raised,
              names |-> {}, impl |-> NoneV, self |-> NoneV, calls |-> <<>>]
        ELSE IF DOMAIN Val(p.config).kwargs \cap CreateParams # {}
        THEN [reg |-> reg, attrs |-> attrs, imported |-> imp, result |-> "TypeError",
              names |-> {}, impl |-> NoneV, self |-> NoneV, calls |-> <<>>]
        ELSE create(reg, attrs, imp, Val(p.config).task,
                    [ConfigArgs(Val(p.config)) EXCEPT !.alias = NoneV], env)

\* a from_config that merges the kwargs over the named fields, an alias among
\* the kwargs replacing the config's alias
FromConfigExtraOverrides(reg, attrs, imp, doc, env) ==
    LET p == parse_raw(doc)
    IN  IF p.raised # "ok"
        THEN [reg |-> reg, attrs |-> attrs, imported |-> imp, result |-> p.raised,
              names |-> {}, impl |-> NoneV, self |-> NoneV, calls |-> <<>>]
        ELSE LET config == Val(p.config)
                 extra == [k \in DOMAIN config.kwargs \ CreateParams |-> config.kwargs[k]]
             IN  create(reg, attrs, imp, config.task,
                        [ConfigArgs(config) EXCEPT
                            !.alias = IF "alias" \in DOMAIN config.kwargs
                                      THEN Some(config.kwargs["alias"]) ELSE @,
                            !.kwargs = extra], env)

\* Pipeline.from_config(config) for a raw JSON string: parse it, then call
\* create with every field of the config as a keyword argument and the
\* config's kwargs unpacked after them; a keyword given twice is a TypeError
\* raised by the call itself, before create runs
from_config(reg, attrs, imp, doc, env) ==
    LET p == parse_raw(doc)
    IN  IF p.raised # "ok"
        THEN [reg |-> reg, attrs |-> attrs, imported |-> imp, result |-> p.raised,
              names |-> {}, impl |-> NoneV, self |-> NoneV, calls |-> <<>>]
        ELSE IF DOMAIN Val(p.config).kwargs \cap CreateParams # {}
        THEN [reg |-> reg, attrs |-> attrs, imported |-> imp, result |-> "TypeError",
              names |-> {}, impl |-> NoneV, self |-> NoneV, calls |-> <<>>]
        ELSE create(reg, attrs, imp, Val(p.config).task, ConfigArgs(Val(p.config)), env)

\* a caller calls Pipeline.from_config and holds what it returns
FromConfig(doc, env) ==
    LET r == from_config(registry, classAttrs, imported, doc, env)
    IN  /\ registry' = r.reg
        /\ classAttrs' = r.attrs
        /\ imported' = r.imported
        /\ pipeline' = r.self
        /\ last' = [op |-> "from_config", doc |-> doc, env |-> env,
                    result |-> r.result, names |-> r.names, impl |-> r.impl,
                    calls |-> r.calls]
        /\ UNCHANGED <<serverVars, threads>>

\* a caller serialises a config it holds
Json(config) ==
    /\ last' = [op |-> "json", config |-> config, text |-> json(config)]
    /\ UNCHANGED <<pipelineVars, serverVars, threads>>

\* a caller parses a JSON string
ParseRaw(doc) ==
    /\ last' = [op |-> "parse_raw", doc |-> doc, result |-> parse_raw(doc).raised,
                config |-> parse_raw(doc).config]
    /\ UNCHANGED <<pipelineVars, serverVars, threads>>

\* a complete JSON document, and the ones that differ from it in one value
BaseDoc ==
    [task |-> J(<<"q", "_", "a">>), model_path |-> J("m.onnx"),
     engine_type |-> J("deepsparse"), batch_size |-> J(1), num_cores |-> Null,
     scheduler |-> J("sync"), input_shapes |-> Null, alias |-> Null,
     kwargs |-> J(EmptyDict)]

DocValues ==
    { BaseDoc,
      [BaseDoc EXCEPT !.task = J(<<"Q", "-", "A">>)],
      [BaseDoc EXCEPT !.task = J(<<>>)],
      [BaseDoc EXCEPT !.model_path = J("")],
      [BaseDoc EXCEPT !.engine_type = J("onnxruntime")],
      [BaseDoc EXCEPT !.engine_type = J("tensorrt")],
      [BaseDoc EXCEPT !.batch_size = J(0)],
      [BaseDoc EXCEPT !.batch_size = J(2), !.num_cores = J(4)],
      [BaseDoc EXCEPT !.scheduler = Null],
      [BaseDoc EXCEPT !.alias = J("x"), !.input_shapes = J(<< <<1, 3>> >>)],
      [BaseDoc EXCEPT !.kwargs = J([top_k |-> 3])],
      [BaseDoc EXCEPT !.alias = J("x"), !.kwargs = J([alias |-> "y"])],
      [BaseDoc EXCEPT !.kwargs = J([alias |-> "y", top_k |-> 3])] }

\* the keys a document gives
DocKeys ==
    { ConfigFields,
      {"task", "model_path"},
      {"task", "model_path", "engine_type", "batch_size", "kwargs"},
      {"task", "model_path", "scheduler", "alias", "input_shapes"},
      {"model_path", "engine_type"} }

\* the JSON documents callers give
Docs == { [k \in keys |-> v[k]] : keys \in DocKeys, v \in DocValues }

\* the config objects callers hold: the ones the documents parse to
Configs == { Val(parse_raw(doc).config) : doc \in { d \in Docs : parse_raw(d).raised = "ok" } }

FromConfigStep == \E doc \in Docs, env \in Envs : FromConfig(doc, env)

JsonStep == \E config \in Configs : Json(config)

ParseRawStep == \E doc \in Docs : ParseRaw(doc)

NextConfig == FromConfigStep \/ JsonStep \/ ParseRawStep

SpecConfig == InitPipeline /\ [][NextConfig]_vars

\* ------------------------------------------------------------- server

\* the task names and aliases of the served models' configs
ServerTasks == {"A", "B"}
ServerAliases == {NoneV, Some(""), Some("x"), Some("A")}
ModelConfigs == [task : ServerTasks, alias : ServerAliases]

\* most models one server config defines
MaxModels == 3

\* `if pipeline_def.config.alias:` -- None and the empty string are falsy
Truthy(alias) == ~IsNone(alias) /\ Val(alias) # ""

\* the routes _add_general_routes mounts
GeneralRoutes ==
    << [method |-> "GET", path |-> "/config", tags |-> "general"],
       [method |-> "GET", path |-> "/ping", tags |-> "general"],
       [method |-> "GET", path |-> "/health", tags |-> "general"],
       [method |-> "GET", path |-> "/healthcheck", tags |-> "general"],
       [method |-> "GET", path |-> "/", tags |-> "general"] >>

\* _add_pipeline_route that never records the task path it hands out
AddPipelineRouteNoClaim(routes, pipeline_def, num_models, tasks) ==
    LET path == IF Truthy(pipeline_def.config.alias)
                THEN "/predict/" \o Val(pipeline_def.config.alias)
                ELSE IF num_models > 1
                THEN "/predict/" \o pipeline_def.config.task
                ELSE "/predict"
    IN  [raised |-> FALSE,
         app |-> Append(routes, [method |-> "POST", path |-> path,
                                 tags |-> "prediction"]),
         defined_tasks |-> tasks]

\* _add_pipeline_route that gives a lone un-aliased model its task's path
AddPipelineRouteAlwaysTask(routes, pipeline_def, num_models, tasks) ==
    IF Truthy(pipeline_def.config.alias)
    THEN [raised |-> FALSE,
          app |-> Append(routes, [method |-> "POST",
                                  path |-> "/predict/" \o Val(pipeline_def.config.alias),
                                  tags |-> "prediction"]),
          defined_tasks |-> tasks]
    ELSE IF pipeline_def.config.task \in tasks
    THEN [raised |-> TRUE, app |-> routes, defined_tasks |-> tasks]
    ELSE [raised |-> FALSE,
          app |-> Append(routes, [method |-> "POST",
                                  path |-> "/predict/" \o pipeline_def.config.task,
                                  tags |-> "prediction"]),
          defined_tasks |-> tasks \cup {pipeline_def.config.task}]

\* _add_pipeline_route(app, pipeline_def, num_models, defined_tasks): whether
\* it raised ValueError, the app's routes and the set defined_tasks afterwards
_add_pipeline_route(routes, pipeline_def, num_models, tasks) ==
    IF Truthy(pipeline_def.config.alias)
    THEN [raised |-> FALSE,
          app |-> Append(routes, [method |-> "POST",
                                  path |-> "/predict/" \o Val(pipeline_def.config.alias),
                                  tags |-> "prediction"]),
          defined_tasks |-> tasks]
    ELSE IF num_models > 1
    THEN IF pipeline_def.config.task \in tasks
         THEN [raised |-> TRUE, app |-> routes, defined_tasks |-> tasks]
         ELSE [raised |-> FALSE,
               app |-> Append(routes, [method |-> "POST",
                                       path |-> "/predict/" \o pipeline_def.config.task,
                                       tags |-> "prediction"]),
               defined_tasks |-> tasks \cup {pipeline_def.config.task}]
    ELSE [raised |-> FALSE,
          app |-> Append(routes, [method |-> "POST", path |-> "/predict",
                                  tags |-> "prediction"]),
          defined_tasks |-> tasks]

\* load_pipelines_definitions(config): one definition per model of the
\* config, in the config's order, each carrying its config
load_pipelines_definitions(models) ==
    [i \in DOMAIN models |-> [config |-> models[i]]]

\* server_app_factory up to its loop, for a server config with these models
StartServer(models) ==
    /\ server = "idle"
    /\ threads = [t \in Threads |-> Idle]
    /\ app' = GeneralRoutes
    /\ pipeline_defs' = load_pipelines_definitions(models)
    /\ defined_tasks' = {}
    /\ next_def' = 1
    /\ server' = "binding"
    /\ last' = [op |-> "server_app_factory"]
    /\ UNCHANGED <<pipelineVars, threads>>

\* one turn of `for pipeline_def in pipeline_defs`; num_tasks is
\* len(config.models).  A ValueError leaves server_app_factory.
AddPipelineRoute ==
    /\ server = "binding"
    /\ next_def <= Len(pipeline_defs)
    /\ LET r == _add_pipeline_route(app, pipeline_defs[next_def],
                                    Len(pipeline_defs), defined_tasks)
       IN  /\ app' = r.app
           /\ defined_tasks' = r.defined_tasks
           /\ server' = IF r.raised THEN "aborted" ELSE "binding"
           /\ next_def' = IF r.raised THEN next_def ELSE next_def + 1
           /\ last' = [op |-> "_add_pipeline_route", index |-> next_def,
                       result |-> IF r.raised THEN "PathCollision" ELSE "ok"]
    /\ UNCHANGED <<pipeline_defs, pipelineVars, threads>>

\* `return app`
ReturnApp ==
    /\ server = "binding"
    /\ next_def > Len(pipeline_defs)
    /\ server' = "returned"
    /\ last' = [op |-> "return app"]
    /\ UNCHANGED <<app, defined_tasks, pipeline_defs, next_def, pipelineVars, threads>>

StartServerStep == \E models \in SeqsUpTo(ModelConfigs, MaxModels) : StartServer(models)

NextServer == StartServerStep \/ AddPipelineRoute \/ ReturnApp

SpecServer == Init /\ [][NextServer]_vars

\* ------------------------------------------------------------- claims: registry

Range(f) == { f[i] : i \in DOMAIN f }

\* {task} \cup aliases of a register call
CallNames(call) ==
    {call.task} \cup
        (IF IsNone(call.task_aliases) THEN {} ELSE Range(Val(call.task_aliases)))

\* a name of the call is bound in reg to another class than the call's
Conflicts(reg, call) ==
    \E n \in CallNames(call) : n \in DOMAIN reg /\ reg[n] # call.pipeline_class

\* a register call of a Pipeline subclass has just ended
Registered == last.op = "register" /\ last.pipeline_class \in PipelineClasses

\* C1: register of an implementation succeeds exactly when none of its names
\* is bound to a different implementation and fails with RegistrationConflict
\* exactly when one is; a call all of whose names are already bound to the
\* implementation succeeds and leaves the mapping as it was.
C1_RegisterOutcome ==
    [][ (last'.op = "register" /\ last'.pipeline_class \in PipelineClasses) =>
            /\ ~Conflicts(registry, last') <=> last'.result = "ok"
            /\ Conflicts(registry, last') <=> last'.result = "RegistrationConflict"
            /\ last'.result = "ok" =>
                   \A n \in CallNames(last') :
                       n \in DOMAIN registry' /\ registry'[n] = last'.pipeline_class
            /\ (\A n \in CallNames(last') :
                    n \in DOMAIN registry /\ registry[n] = last'.pipeline_class)
                   => last'.result = "ok" /\ registry' = registry ]_vars

\* T is bound to one implementation and a register of T with another has failed
C1_Witness ==
    /\ Registered
    /\ last.result = "RegistrationConflict"
    /\ last.task \in DOMAIN registry
    /\ registry[last.task] # last.pipeline_class

\* C2: a bound name stays bound, and to the same implementation, over every
\* step (the registry is a mapping, so a name has one implementation).
C2_NoRebind ==
    [][ \A n \in DOMAIN registry :
            n \in DOMAIN registry' /\ registry'[n] = registry[n] ]_vars

\* two implementations are registered and a later register call was refused
C2_Witness ==
    /\ Registered
    /\ last.result = "RegistrationConflict"
    /\ \E n, m \in DOMAIN registry : registry[n] = "ImplA" /\ registry[m] = "ImplB"

\* ------------------------------------------------------------- claims: factory

\* the same letter in either case, or a hyphen and an underscore
SameChar(c, d) ==
    \/ c = d
    \/ {c, d} \in { {"q", "Q"}, {"a", "A"}, {"i", "I"}, {"c", "C"}, {"-", "_"} }

\* s and t are equal after lowercasing and replacing hyphens by underscores
SameTask(s, t) ==
    /\ Len(s) = Len(t)
    /\ \A i \in 1..Len(s) : SameChar(s[i], t[i])

\* n is spelt in lower case and without hyphens
IsCanonicalForm(n) == \A i \in 1..Len(n) : n[i] \notin {"Q", "A", "I", "C", "-"}

\* what a create call for task would resolve to in the current state
ResolvesTo(task) ==
    create(registry, classAttrs, imported, task, DefaultArgs, EnvOk)

\* C3: after a create call for a task, a create call for any task that differs
\* from it in case and hyphenation only resolves to the same implementation,
\* and fails with UnknownTask exactly if the first did.
C3_LookupInsensitive ==
    last.op = "create" =>
        \A t \in Names :
            SameTask(t, last.task) =>
                /\ ResolvesTo(t).impl = last.impl
                /\ ResolvesTo(t).result = "UnknownTask" <=> last.result = "UnknownTask"

\* create("Q-A") has resolved to the implementation bound to q_a
C3_Witness ==
    /\ last.op = "create"
    /\ last.task = <<"Q", "-", "A">>
    /\ <<"q", "_", "a">> \in DOMAIN registry
    /\ last.impl = Some(registry[<<"q", "_", "a">>])

\* C4: a create call for a name that a successful register call bound
\* resolves to the implementation bound to that name, whatever its spelling
\* (when the lazy-registration trigger itself did not fail).
C4_RegisteredNameResolves ==
    (/\ last.op = "create"
     /\ last.result # "RegistrationConflict"
     /\ last.task \in DOMAIN registry)
        => last.impl = Some(registry[last.task])

\* C5: a create call whose canonical task name is unbound once the
\* lazy-registration trigger has run fails with UnknownTask, its error lists
\* exactly the names bound at that moment, and neither
\* setup_onnx_file_path nor an engine constructor is called.
C5_UnknownTask ==
    (/\ last.op = "create"
     /\ \A n \in DOMAIN registry : ~(SameTask(n, last.task) /\ IsCanonicalForm(n)))
        => /\ last.result = "UnknownTask"
           /\ last.names = DOMAIN registry
           /\ last.impl = NoneV
           /\ last.calls = <<>>
           /\ pipeline = NoneV

\* create failed with UnknownTask while names were bound, one of them with a
\* spelling that is not canonical
C5_Witness ==
    /\ last.op = "create"
    /\ last.result = "UnknownTask"
    /\ <<"Q", "-", "A">> \in last.names
    /\ Cardinality(last.names) >= 2

\* ------------------------------------------------------------- claims: route binder

\* the paths of the prediction routes, in mounting order
PredictionPaths ==
    LET routes == SelectSeq(app, LAMBDA r : r.tags = "prediction")
    IN  [i \in DOMAIN routes |-> routes[i].path]

\* the config of the i-th instance being bound
ConfigOf(i) == pipeline_defs[i].config

\* the instance has an alias that is not the empty string
HasAlias(config) == ~IsNone(config.alias) /\ Val(config.alias) # ""

\* C6 as stated: the i-th path is /predict/{alias} if the alias is non-null,
\* else /predict if one instance is bound, else /predict/{task}.
C6_PathOfNonNullAlias ==
    \A i \in DOMAIN PredictionPaths :
        PredictionPaths[i] =
            IF ~IsNone(ConfigOf(i).alias) THEN "/predict/" \o Val(ConfigOf(i).alias)
            ELSE IF Len(pipeline_defs) = 1 THEN "/predict"
            ELSE "/predict/" \o ConfigOf(i).task

\* C6 amended: the i-th path is /predict/{alias} if the alias is non-null and
\* not empty, else /predict if one instance is bound, else /predict/{task};
\* an empty alias counts as no alias.
C6_PathOfInstance ==
    /\ Len(PredictionPaths) <= Len(pipeline_defs)
    /\ \A i \in DOMAIN PredictionPaths :
           PredictionPaths[i] =
               IF HasAlias(ConfigOf(i)) THEN "/predict/" \o Val(ConfigOf(i).alias)
               ELSE IF Len(pipeline_defs) = 1 THEN "/predict"
               ELSE "/predict/" \o ConfigOf(i).task

\* three instances are bound: one by its alias, one with an empty alias and
\* one without alias by their tasks
C6_Witness ==
    /\ server = "returned"
    /\ Len(pipeline_defs) = 3
    /\ \E i, j, k \in DOMAIN pipeline_defs :
           /\ HasAlias(ConfigOf(i))
           /\ ConfigOf(j).alias = Some("")
           /\ IsNone(ConfigOf(k).alias)

\* C7: the paths of the prediction routes of a server the binder accepted
\* are pairwise distinct.
C7_PathsDistinct ==
    server = "returned" =>
        \A i, j \in DOMAIN PredictionPaths :
            i # j => PredictionPaths[i] # PredictionPaths[j]

\* the instances before the i-th that have no alias and the i-th's task
EarlierClaims(i) ==
    { j \in 1..(i - 1) :
          ~HasAlias(ConfigOf(j)) /\ ConfigOf(j).task = ConfigOf(i).task }

\* C8: with more than one instance, binding an instance without alias fails
\* with PathCollision exactly if an earlier instance without alias has its
\* task; binding an instance with an alias never fails and claims no task
\* path; a PathCollision ends server_app_factory without an app returned.
\* (An empty alias is no alias, as in C6.)
C8_PathCollision ==
    /\ (last.op = "_add_pipeline_route" /\ Len(pipeline_defs) > 1) =>
           /\ ~HasAlias(ConfigOf(last.index)) =>
                  (last.result = "PathCollision" <=> EarlierClaims(last.index) # {})
           /\ HasAlias(ConfigOf(last.index)) => last.result = "ok"
           /\ last.result = "PathCollision" <=> server = "aborted"
    /\ (server \in {"binding", "returned"} /\ Len(pipeline_defs) > 1) =>
           defined_tasks =
               { ConfigOf(j).task : j \in { k \in 1..(next_def - 1) : ~HasAlias(ConfigOf(k)) } }
    /\ server = "aborted" => last.op = "_add_pipeline_route" /\ last.result = "PathCollision"

\* tasks [A, A, A] with aliases [None, "x", None]: two routes are mounted and
\* binding the third has failed
C8_Witness ==
    /\ server = "aborted"
    /\ pipeline_defs = << [config |-> [task |-> "A", alias |-> NoneV]],
                          [config |-> [task |-> "A", alias |-> Some("x")]],
                          [config |-> [task |-> "A", alias |-> NoneV]] >>
    /\ PredictionPaths = <<"/predict/A", "/predict/x">>
    /\ last.index = 3

\* ------------------------------------------------------------- claims: invocation

\* the value is an object of the type or of a subclass of it
Conforms(value, type) ==
    /\ ~IsNone(value)
    /\ Val(value).type \in { t \in ValueTypes : t = type \/ BaseOf(t) = type }

\* the named arguments satisfy the schema
Satisfies(kwargs, type) ==
    /\ RequiredOf(type) \subseteq DOMAIN kwargs
    /\ \A k \in DOMAIN kwargs :
           k \in FieldsOf(type) =>
               \/ kwargs[k] = "good"
               \/ kwargs[k] = "none" /\ k \notin RequiredOf(type)

\* the functions the last invocation called, in order
Called == [i \in DOMAIN last.calls |-> last.calls[i].fn]

\* the input of the last invocation does not satisfy the input schema: a
\* positional value that is no instance of it, named arguments that do not
\* satisfy it, or neither a positional value nor named arguments
UnusableInput ==
    LET schema == input_model(Val(pipeline))
    IN  \/ ~IsNone(last.pipeline_inputs) /\ ~Conforms(last.pipeline_inputs, schema)
        \/ /\ IsNone(last.pipeline_inputs)
           /\ last.kwargs # EmptyDict
           /\ ~Satisfies(last.kwargs, schema)
        \/ IsNone(last.pipeline_inputs) /\ last.kwargs = EmptyDict

\* C9: an invocation whose input does not satisfy input_schema fails with
\* InputValidationError, and neither process_inputs nor the engine nor
\* process_engine_outputs is called for it.
C9_InputValidation ==
    (last.op = "call" /\ UnusableInput) =>
        /\ last.result = "InputValidationError"
        /\ last.value = NoneV
        /\ \A i \in DOMAIN Called :
               Called[i] \notin {"process_inputs", "engine", "process_engine_outputs"}

\* a positional value of another type was refused
C9_Witness ==
    /\ last.op = "call"
    /\ ~IsNone(last.pipeline_inputs)
    /\ ~Conforms(last.pipeline_inputs, input_model(Val(pipeline)))
    /\ last.result = "InputValidationError"

\* what process_engine_outputs returned in the last invocation, if it returned
PostReturned ==
    { IF c.ret = "None" THEN NoneV ELSE Some([type |-> c.ret, given |-> {"text"}]) :
          c \in { last.calls[i] : i \in { j \in DOMAIN last.calls :
                      /\ last.calls[j].fn = "process_engine_outputs"
                      /\ last.calls[j].ret # "raise" } } }

\* C10: a value an invocation returns is an instance of output_model, and it
\* is the value process_engine_outputs returned; when process_engine_outputs
\* returns a value that is no instance of output_model, the invocation fails
\* with OutputValidationError and returns nothing.
C10_OutputValidation ==
    last.op = "call" =>
        /\ last.result = "ok" =>
               /\ Conforms(last.value, output_model(Val(pipeline)))
               /\ PostReturned = {last.value}
        /\ \A v \in PostReturned :
               ~Conforms(v, output_model(Val(pipeline))) =>
                   last.result = "OutputValidationError" /\ last.value = NoneV

\* process_engine_outputs returned an object of another type and the
\* invocation failed with OutputValidationError
C10_Witness ==
    /\ last.op = "call"
    /\ last.result = "OutputValidationError"
    /\ \E v \in PostReturned : ~IsNone(v)

\* ------------------------------------------------------------- construction

\* the positions of a call sequence at which one of the names is called
Positions(calls, names) == { i \in 1..Len(calls) : calls[i] \in names }

EngineConstructors == {"Engine", "ORTEngine"}

\* the most recent operation was a create that reached a constructor
Constructing == last.op = "create" /\ ~IsNone(last.impl)

\* C11: a construction resolves the artifact exactly once, first, and then
\* constructs an engine at most once, with nothing retried; the object that
\* becomes Ready made exactly the two calls in that order; when the artifact
\* resolution fails no engine constructor is called and no object is held
C11_ConstructionOrder ==
    Constructing =>
        /\ Positions(last.calls, {"setup_onnx_file_path"}) = {1}
        /\ Positions(last.calls, EngineConstructors) \subseteq {2}
        /\ Len(last.calls) <= 2
        /\ ~IsNone(pipeline) => Positions(last.calls, EngineConstructors) = {2}
        /\ IsNone(last.env.artifact) =>
               /\ Positions(last.calls, EngineConstructors) = {}
               /\ IsNone(pipeline)
               /\ last.result = "ArtifactResolutionError"

C11_Witness ==
    /\ Constructing
    /\ IsNone(last.env.artifact)
    /\ last.calls = <<"setup_onnx_file_path">>

\* ------------------------------------------------------------- config model

\* the document gives the key with a value that is not null
Gives(doc, k) == k \in DOMAIN doc /\ doc[k] # <<>>

\* the spellings of the two engine identifiers
PrimarySpellings == {"deepsparse", "DeepSparse"}
FallbackSpellings == {"onnxruntime"}

\* the document breaks one of the Config Model's rules
BadBatchSize(doc) == Gives(doc, "batch_size") /\ doc["batch_size"][1] < 1
EmptyTask(doc) == Gives(doc, "task") /\ doc["task"][1] = <<>>
EmptyModelSource(doc) == Gives(doc, "model_path") /\ doc["model_path"][1] = ""
BadEngineKind(doc) ==
    /\ Gives(doc, "engine_type")
    /\ doc["engine_type"][1] \notin PrimarySpellings \cup FallbackSpellings

\* C12: a config document with batch_size below 1, an empty task, an empty
\* model source or an engine kind that is neither identifier is refused when
\* it is parsed (the engine kind with UnsupportedEngine), before any
\* constructor is called: from_config makes no call and returns no pipeline
C12_ConfigValidation ==
    last.op = "from_config" =>
        /\ (BadBatchSize(last.doc) \/ EmptyTask(last.doc) \/ EmptyModelSource(last.doc)) =>
               /\ last.result = "ConfigValidationError"
               /\ IsNone(last.impl) /\ last.calls = <<>> /\ IsNone(pipeline)
        /\ BadEngineKind(last.doc) =>
               /\ last.result \in {"ConfigValidationError", "UnsupportedEngine"}
               /\ IsNone(last.impl) /\ last.calls = <<>> /\ IsNone(pipeline)

\* two config objects agree on every declared field
FieldwiseEqual(c, d) ==
    \A k \in {"task", "model_path", "engine_type", "batch_size", "num_cores",
              "scheduler", "input_shapes", "alias", "kwargs"} : c[k] = d[k]

CreateDefault(k) ==
    CASE k = "engine_type" -> "deepsparse"
      [] k = "batch_size" -> 1
      [] k = "kwargs" -> [x \in {} |-> x]
      [] OTHER -> <<>>

\* the argument create receives for a key the document gives: an optional
\* argument of create is None or holds the value
Given(doc, k) ==
    IF k \in {"num_cores", "scheduler", "input_shapes", "alias"} THEN doc[k]
    ELSE doc[k][1]

\* create's arguments when exactly the fields the document gives are passed
\* and the others are left to create's own defaults
ArgsGiven(doc) ==
    [k \in {"model_path", "engine_type", "batch_size", "num_cores", "scheduler",
            "input_shapes", "alias", "kwargs"} |->
        IF k \in DOMAIN doc THEN Given(doc, k) ELSE CreateDefault(k)]

\* the same, with an omitted scheduler taken to be "async"
ArgsGivenAsyncDefault(doc) ==
    [ArgsGiven(doc) EXCEPT !["scheduler"] =
        IF "scheduler" \in DOMAIN doc THEN @ ELSE <<"async">>]

\* from_config accepted the document and its call of create bound its
\* arguments
Configured ==
    /\ last.op = "from_config"
    /\ last.result \notin {"ConfigValidationError", "TypeError"}

\* C14 as stated: from_config on a document behaves as create called with
\* exactly the fields the document gives, every omitted field taking the
\* default of create: same outcome, same object, same registry afterwards
C14_FromConfigAsCreate ==
    [][ Configured' =>
            LET r == create(registry, classAttrs, imported, last'.doc["task"][1],
                            ArgsGiven(last'.doc), last'.env)
            IN  /\ last'.result = r.result
                /\ pipeline' = r.self
                /\ registry' = r.reg ]_vars

\* C14: from_config on a document behaves as create called with the fields
\* the document gives, every omitted field taking the default of create
\* except the scheduler, which an omitting document sets to "async"
C14_FromConfigAsCreateAsync ==
    [][ Configured' =>
            LET r == create(registry, classAttrs, imported, last'.doc["task"][1],
                            ArgsGivenAsyncDefault(last'.doc), last'.env)
            IN  /\ last'.result = r.result
                /\ pipeline' = r.self
                /\ registry' = r.reg ]_vars

C14_Witness ==
    /\ Configured
    /\ last.result = "ok"
    /\ "scheduler" \notin DOMAIN last.doc
    /\ ~IsNone(pipeline)
    /\ pipeline[1].engine_args["scheduler"] = <<"async">>

\* ------------------------------------------------------------- invocation phases

\* the last invocation parsed named arguments
ParsedKwargs == IsNone(last.pipeline_inputs) /\ last.kwargs # [x \in {} |-> x]

\* the calls of a complete invocation, in order
PhaseOrder ==
    IF ParsedKwargs
    THEN <<"input_model", "process_inputs", "engine", "process_engine_outputs">>
    ELSE <<"process_inputs", "engine", "process_engine_outputs">>

\* the record of the call of fn in the last invocation, made exactly once
TheCall(fn) == last.calls[CHOOSE i \in DOMAIN last.calls : last.calls[i].fn = fn]
CalledOnce(fn) == Cardinality({ i \in DOMAIN last.calls : last.calls[i].fn = fn }) = 1

\* C15: an invocation makes its calls in the fixed order parse, process_inputs,
\* engine, process_engine_outputs, each at most once and none after a call
\* that raised; a successful one makes each exactly once, with the engine run
\* on exactly what process_inputs returned and process_engine_outputs on
\* exactly what the engine returned, and its output validated
C15_PhaseOrder ==
    last.op = "call" =>
        /\ Len(last.calls) <= Len(PhaseOrder)
        /\ Called = SubSeq(PhaseOrder, 1, Len(last.calls))
        /\ \A i \in DOMAIN last.calls :
               last.calls[i].ret = "raise" => i = Len(last.calls) /\ last.result # "ok"
        /\ last.result = "ok" =>
               /\ Called = PhaseOrder
               /\ \A fn \in Range(PhaseOrder) : CalledOnce(fn)
               /\ TheCall("engine").arg = TheCall("process_inputs").ret
               /\ TheCall("process_engine_outputs").arg = TheCall("engine").ret
               /\ ~ParsedKwargs => TheCall("process_inputs").arg = last.pipeline_inputs
               /\ Conforms(last.value, output_model(Val(pipeline)))

C15_Witness ==
    /\ last.op = "call"
    /\ last.result = "ok"
    /\ Len(last.calls) >= 3
    /\ TheCall("engine").arg = "x2"
    /\ TheCall("process_engine_outputs").arg = "y2"

\* ------------------------------------------------------------- concurrent register

\* the thread's register call has bound its name
Bound(t) == threads[t].pc \in {"attrs", "done"}

\* C16: when two register calls bind different classes to the same name with
\* their steps interleaved, at most one of them succeeds, and two lookups of
\* the name never return different classes
C16_RaceSafe ==
    [][ /\ ~ \E t, u \in {"t1", "t2"} :
                /\ Bound(t)' /\ Bound(u)'
                /\ threads'[t].task_name = threads'[u].task_name
                /\ threads'[t].pipeline_class # threads'[u].pipeline_class
        /\ (/\ last.op = "lookup" /\ last'.op = "lookup"
            /\ last'.task = last.task
            /\ last.impl # <<>>) => last'.impl = last.impl ]_vars

\* ------------------------------------------------------------- invocation frame

\* the attributes fixed when the pipeline was constructed
ReadyFields ==
    {"model_path_orig", "onnx_file_path", "engine_type", "engine_args", "alias",
     "engine"}

\* every collaborator of the last invocation returns, and
\* process_engine_outputs returns an object of the pipeline's output model
Cooperative ==
    /\ last.env.pre # "raise"
    /\ last.env.eng # "raise"
    /\ last.env.post = output_model(Val(pipeline))

\* C17: an invocation, whatever its outcome, leaves the pipeline held and
\* its model source, artifact path, engine kind, engine args, alias and
\* engine as they were; an invocation with usable input and cooperating
\* collaborators that follows a failed invocation succeeds
C17_CallFrame ==
    [][ last'.op = "call" =>
            /\ ~IsNone(pipeline) /\ ~IsNone(pipeline')
            /\ \A f \in ReadyFields : pipeline'[1][f] = pipeline[1][f]
            /\ (/\ last.op = "call" /\ last.result # "ok"
                /\ ~UnusableInput' /\ Cooperative') =>
                   last'.result = "ok" ]_vars

C17_Witness ==
    /\ last.op = "call"
    /\ last.result = "EngineError"
    /\ ~IsNone(pipeline)
    /\ pipeline[1].engine.kind = "Engine"

\* ------------------------------------------------------------- engine kind

\* the engine kind given to the last create names the primary engine, the
\* fallback engine, or neither, whatever the case of its letters
NamesPrimary == last.args.engine_type \in {"deepsparse", "DeepSparse"}
NamesFallback == last.args.engine_type \in {"onnxruntime"}

\* C18: constructing with an engine kind that names neither engine constructs
\* no engine of either kind and yields no pipeline, and once the artifact is
\* resolved the construction fails with UnsupportedEngine
C18_UnsupportedEngine ==
    (Constructing /\ ~NamesPrimary /\ ~NamesFallback) =>
        /\ Positions(last.calls, {"Engine", "ORTEngine"}) = {}
        /\ IsNone(pipeline)
        /\ last.result # "ok"
        /\ ~IsNone(last.env.artifact) => last.result = "UnsupportedEngine"

C18_Witness ==
    /\ Constructing
    /\ last.args.engine_type = "tensorrt"
    /\ last.result = "UnsupportedEngine"
    /\ last.calls = <<"setup_onnx_file_path">>

\* the engine constructor the last create called, if it called one
Dispatched == { last.calls[i] : i \in Positions(last.calls, {"Engine", "ORTEngine"}) }

\* C19: the engine args of a constructed pipeline hold the scheduler exactly
\* when the engine constructed is the primary one, and the fallback engine
\* gets exactly batch_size, num_cores and input_shapes; the engine constructed
\* is the one the engine kind names, whatever the case of its letters
C19_SchedulerIffPrimary ==
    (Constructing /\ ~IsNone(pipeline)) =>
        LET self == pipeline[1]
        IN  /\ Dispatched = {self.engine.kind}
            /\ self.engine.args = self.engine_args
            /\ ("scheduler" \in DOMAIN self.engine_args) <=> (self.engine.kind = "Engine")
            /\ self.engine.kind = "Engine" =>
                   /\ DOMAIN self.engine_args =
                          {"batch_size", "num_cores", "input_shapes", "scheduler"}
                   /\ self.engine_args["scheduler"] = last.args.scheduler
            /\ self.engine.kind = "ORTEngine" =>
                   DOMAIN self.engine_args = {"batch_size", "num_cores", "input_shapes"}
            /\ NamesPrimary <=> (self.engine.kind = "Engine")
            /\ NamesFallback <=> (self.engine.kind = "ORTEngine")
            /\ self.engine_args["batch_size"] = last.args.batch_size
            /\ self.engine_args["num_cores"] = last.args.num_cores
            /\ self.engine_args["input_shapes"] = last.args.input_shapes

C19_Witness ==
    /\ Constructing
    /\ ~IsNone(pipeline)
    /\ last.args.engine_type = "DeepSparse"
    /\ last.args.scheduler = <<"async">>
    /\ pipeline[1].engine.kind = "Engine"

\* ------------------------------------------------------------- named arguments

\* the typed input the schema builds from the named arguments
TypedFrom(kwargs, type) ==
    << [type |-> type,
        given |-> { k \in DOMAIN kwargs : k = "text" /\ kwargs[k] = "good" }] >>

\* the last invocation called process_inputs, on the value
ProcessInputsOn(value) ==
    \E i \in DOMAIN last.calls :
        last.calls[i].fn = "process_inputs" /\ last.calls[i].arg = value

\* C20 as stated: an invocation with no positional value and named arguments
\* that satisfy the input schema, the empty set included, builds the typed
\* input from them and calls process_inputs on it; an invocation with a typed
\* positional value calls process_inputs on that value
C20_NamedArgumentsAll ==
    last.op = "call" =>
        LET schema == input_model(Val(pipeline))
        IN  /\ (IsNone(last.pipeline_inputs) /\ Satisfies(last.kwargs, schema)) =>
                   ProcessInputsOn(TypedFrom(last.kwargs, schema))
            /\ Conforms(last.pipeline_inputs, schema) =>
                   ProcessInputsOn(last.pipeline_inputs)

\* C20: an invocation with no positional value and a non-empty set of named
\* arguments that satisfies the input schema builds the typed input from them
\* and calls process_inputs on it; with no positional value and no named
\* argument it fails with InputValidationError, even when every field of the
\* schema is optional; with a typed positional value it calls process_inputs
\* on that value
C20_NamedArguments ==
    last.op = "call" =>
        LET schema == input_model(Val(pipeline))
        IN  /\ (/\ IsNone(last.pipeline_inputs)
                /\ last.kwargs # [x \in {} |-> x]
                /\ Satisfies(last.kwargs, schema)) =>
                   ProcessInputsOn(TypedFrom(last.kwargs, schema))
            /\ (IsNone(last.pipeline_inputs) /\ last.kwargs = [x \in {} |-> x]) =>
                   last.result = "InputValidationError" /\ last.calls = <<>>
            /\ Conforms(last.pipeline_inputs, schema) =>
                   ProcessInputsOn(last.pipeline_inputs)

C20_Witness ==
    /\ last.op = "call"
    /\ IsNone(last.pipeline_inputs)
    /\ last.kwargs = [k \in {"text"} |-> "none"]
    /\ ProcessInputsOn(<< [type |-> "InputLazy", given |-> {}] >>)

\* ------------------------------------------------------------- create steps

\* the lower-case, underscore spelling of a task name
CanonOf(task) == CHOOSE n \in { <<"q", "_", "a">>, <<"i", "c">> } : SameTask(n, task)

\* the task belongs to the lazily registered domain
IsLazy(task) == SameTask(task, <<"i", "c">>)

\* C21: create canonicalises the task, triggers the lazy registration, looks
\* the canonical name up in the registry as the trigger left it, and only then
\* constructs: a lazy task unbound before the call is registered and resolved
\* by that call; a second create for it resolves again, with no conflict and
\* the registry unchanged; a failed trigger or lookup constructs nothing
C21_CreateOrder ==
    [][ last'.op = "create" =>
            LET canon == CanonOf(last'.task)
            IN  /\ (IsLazy(last'.task) /\ canon \notin DOMAIN registry) =>
                       /\ last'.result \notin {"UnknownTask", "RegistrationConflict"}
                       /\ last'.impl = <<"LazyImpl">>
                       /\ canon \in DOMAIN registry' /\ registry'[canon] = "LazyImpl"
                /\ (/\ IsLazy(last'.task)
                    /\ canon \in DOMAIN registry /\ registry[canon] = "LazyImpl") =>
                       /\ last'.result \notin {"UnknownTask", "RegistrationConflict"}
                       /\ last'.impl = <<"LazyImpl">>
                       /\ registry' = registry /\ classAttrs' = classAttrs
                /\ last'.result # "RegistrationConflict" =>
                       /\ last'.result = "UnknownTask" <=> canon \notin DOMAIN registry'
                       /\ canon \in DOMAIN registry' => last'.impl = <<registry'[canon]>>
                /\ last'.result \in {"UnknownTask", "RegistrationConflict"} =>
                       last'.impl = <<>> /\ last'.calls = <<>> /\ pipeline' = <<>>
                /\ last'.calls # <<>> => last'.impl # <<>> ]_vars

C21_Witness ==
    /\ last.op = "create"
    /\ last.task = <<"i", "c">>
    /\ last.impl = <<"LazyImpl">>
    /\ last.result = "ok"
    /\ imported
    /\ registry[<<"i", "c">>] = "LazyImpl"

\* ------------------------------------------------------------- extra arguments

\* the named fields of the Config Model that an extra key can collide with
NamedFields ==
    {"task", "model_path", "engine_type", "batch_size", "num_cores", "scheduler",
     "input_shapes", "alias"}

\* the extra mapping of the last document, empty when the document has none
ExtraOf(doc) == IF "kwargs" \in DOMAIN doc THEN doc["kwargs"][1] ELSE [x \in {} |-> x]

\* the alias the last document names, None when it names none
AliasOf(doc) == IF "alias" \in DOMAIN doc THEN doc["alias"] ELSE <<>>

\* the last operation was a from_config whose document parsed
Parsed == last.op = "from_config" /\ last.result # "ConfigValidationError"

\* some key of the extra mapping equals a named field
Collides(doc) == DOMAIN ExtraOf(doc) \cap NamedFields # {}

\* from_config could construct: the task resolves and the collaborators succeed
Constructible ==
    /\ last.doc["task"][1] \in DOMAIN registry
    /\ ~IsNone(last.env.artifact) /\ last.env.engine_ok
    /\ "engine_type" \in DOMAIN last.doc => last.doc["engine_type"][1] # "tensorrt"

\* C22 as stated: from_config on a document whose extra mapping has a key
\* equal to a named field constructs the pipeline with the named field's
\* value, and the extra entries that do not collide reach the constructor
C22_NamedFieldsWin ==
    (Parsed /\ Collides(last.doc) /\ Constructible) =>
        /\ ~IsNone(pipeline)
        /\ pipeline[1].alias = AliasOf(last.doc)
        /\ pipeline[1].kwargs =
               [k \in DOMAIN ExtraOf(last.doc) \ NamedFields |-> ExtraOf(last.doc)[k]]

\* C22: an extra entry never overrides a named field: from_config on a
\* document whose extra mapping has a key equal to a named field fails with
\* TypeError, calls nothing and constructs no pipeline; on a document with no
\* such key a constructed pipeline has the named fields' values and exactly
\* the document's extra entries
C22_ExtraNeverOverrides ==
    Parsed =>
        /\ Collides(last.doc) =>
               /\ last.result = "TypeError"
               /\ last.impl = <<>> /\ last.calls = <<>> /\ IsNone(pipeline)
        /\ (~Collides(last.doc) /\ ~IsNone(pipeline)) =>
               /\ pipeline[1].alias = AliasOf(last.doc)
               /\ pipeline[1].kwargs = ExtraOf(last.doc)
               /\ "batch_size" \in DOMAIN last.doc =>
                      pipeline[1].engine_args["batch_size"] = last.doc["batch_size"][1]
        /\ (~Collides(last.doc) /\ Constructible) => ~IsNone(pipeline)

C22_Witness ==
    /\ Parsed
    /\ Constructible
    /\ ExtraOf(last.doc) = [alias |-> "y", top_k |-> 3]
    /\ last.result = "TypeError"

\* ------------------------------------------------------------- failed register

\* C23: a register call that fails with RegistrationConflict leaves the
\* registry as it was before the call, the names that precede the conflicting
\* one in its list included, and leaves the recorded task and aliases of
\* every class as they were
C23_FailedRegisterNoChange ==
    [][ (last'.op = "register" /\ last'.result = "RegistrationConflict") =>
            /\ registry' = registry
            /\ classAttrs' = classAttrs ]_vars

====
